---- MODULE Spec2Model ----
(***************************************************************************)
(* Model of comtrade_be_hs85.py: the rate-limited fetch loop (call_api),   *)
(* the normalisation of one payload (normalize) and the per-year driver    *)
(* (main) that accumulates the batches and writes the CSV once; and of     *)
(* download_comtrade_by_country.py: the per-reporter download loop.        *)
(*                                                                         *)
(* The remote service is the environment.  It is taken to speak HTTP as    *)
(* RFC 9110 defines it: a status is 2xx, 429 or another 4xx/5xx, and a     *)
(* Retry-After header is absent, empty, delay-seconds (decimal digits) or  *)
(* an HTTP-date.  A 2xx body may or may not be JSON, and the transport may *)
(* fail (session.get raises).                                              *)
(***************************************************************************)
EXTENDS Integers, Sequences, FiniteSets, TLC

VARIABLES
    pc,         \* main: "idle" | "for" | "call" | "pause" | "done"
    y,          \* main: the loop variable of `for y in years`
    frames,     \* main: the list of non-empty DataFrames
    file,       \* the CSV on disk: NoFile or a DataFrame
    writes,     \* number of to_csv calls so far
    reported,   \* TRUE once "Aucune donnée récupérée." was printed
    pauses,     \* number of time.sleep(1.2) calls so far
    idle,       \* tenths of a second main has slept since call_api last acted
    started,    \* the years for which call_api was invoked, in order
    cpc,        \* call_api: "idle" | "entry" | "loop" | "returned" | "raised"
    period,     \* call_api: its period argument
    use_get,    \* call_api: its use_get argument
    api_key,    \* os.getenv("COMTRADE_API_KEY"): NoKey or a string
    attempts,   \* call_api: the local counter
    resp,       \* call_api: the last response received (NoResp before any)
    result,     \* call_api: what it returned or raised
    nreq,       \* requests issued by the current call_api invocation
    n429,       \* 429 responses received by the current invocation
    nerr,       \* other error-class responses received by it
    slept,      \* the time.sleep arguments of the current invocation, in order
    quota,      \* how many 429 responses the service sends per invocation
    batches,    \* 2xx responses with rows served in this behaviour
    nin,        \* normalize under test: its payload argument
    nout,       \* normalize under test: what it returned or raised
    dpc,        \* download main: "idle" | "start" | "loop" | "done" |
                \*   "exit" (sys.exit(1)) | "crashed" (uncaught exception)
    max_countries, \* download main: args.max_countries, None or an integer
    found,      \* how many reporters get_reporters returned
    reporters,  \* download main: the list of (id, name) it iterates over
    idx,        \* download main: iterations of the for loop completed
    ok,         \* download main: its counter of files written
    ko,         \* download main: its counter of reporters without a file
    dresp,      \* download_country_csv: the last response (NoReply if none)
    requested,  \* the reporter ids requested from the service, in order
    saved       \* the files on disk: reporter id -> text, as a set of pairs

vars == <<pc, y, frames, file, writes, reported, pauses, idle, started,
          cpc, period, use_get, api_key, attempts, resp, result,
          nreq, n429, nerr, slept, quota, batches, nin, nout,
          dpc, max_countries, found, reporters, idx, ok, ko, dresp,
          requested, saved>>

mainVars == <<pc, y, frames, file, writes, reported, pauses, idle, started>>
callVars == <<cpc, period, use_get, api_key, attempts, resp, result,
              nreq, n429, nerr, slept, batches>>
normVars == <<nin, nout>>
dlVars == <<dpc, max_countries, found, reporters, idx, ok, ko, dresp,
            requested, saved>>

----------------------------------------------------------------------------
(* Bounds of the model.                                                    *)

\* 429 responses the service sends to one call_api of a run of main
MaxRun429 == 2
\* 429 responses the service sends to a call_api invoked on its own
MaxCall429 == 7
\* 2xx responses carrying rows that the service serves during one run
MaxBatches == 2
\* reporters that the service lists
MaxReporters == 3

(* Program constants.                                                      *)

FirstYear == 2010
StopYear == 2025
ThrottleCeiling == 60
ErrorCeiling == 15
MaxAttempts == 3
\* time.sleep(1.2), in tenths of a second
Courtesy == 12

Min(a, b) == IF a <= b THEN a ELSE b

----------------------------------------------------------------------------
(* Strings are sequences of one-character strings, so that str.isdigit and *)
(* int() can be computed character by character.                           *)

DecimalDigits == {"0", "1", "2", "3", "4", "5", "6", "7", "8", "9"}

DigitVal(c) ==
    CASE c = "0" -> 0 [] c = "1" -> 1 [] c = "2" -> 2 [] c = "3" -> 3
      [] c = "4" -> 4 [] c = "5" -> 5 [] c = "6" -> 6 [] c = "7" -> 7
      [] c = "8" -> 8 [] c = "9" -> 9

\* str.isdigit(): non-empty and every character a digit
IsDigit(s) == Len(s) > 0 /\ \A i \in 1..Len(s) : s[i] \in DecimalDigits

RECURSIVE ParseInt(_)
\* int(s) for a string of decimal digits
ParseInt(s) ==
    IF Len(s) = 0 THEN 0
    ELSE 10 * ParseInt(SubSeq(s, 1, Len(s) - 1)) + DigitVal(s[Len(s)])

\* Python's None where a string is expected (headers.get, os.getenv)
None == <<"None">>

\* bool(s) for s a string or None
Truthy(s) == s # None /\ Len(s) > 0

\* The Retry-After values the service sends with a 429: absent, empty,
\* delay-seconds, or an HTTP-date.
RetryAfterValues ==
    { None,
      <<>>,
      <<"3">>,
      <<"1", "0">>,
      <<"W", "e", "d", ",">> }

\* The values of the environment variable COMTRADE_API_KEY.
ApiKeyValues == { None, <<>>, <<"k">> }

----------------------------------------------------------------------------
(* JSON values and DataFrame cells, tagged.  A number m * 10^(-e) is       *)
(* Num(m, e); NaN is the missing marker of pandas.                         *)

Null == [t |-> "null", v |-> <<>>]
NaN == [t |-> "nan", v |-> <<>>]
Str(s) == [t |-> "str", v |-> s]
Num(m, e) == [t |-> "num", v |-> <<m, e>>]
List(xs) == [t |-> "list", v |-> xs]
Dict(f) == [t |-> "dict", v |-> f]
\* a 2xx body that is not JSON
NotJson == [t |-> "notjson", v |-> <<>>]

\* dict.get(key) : None when the key is absent
DictGet(d, key) == IF key \in DOMAIN d.v THEN d.v[key] ELSE Null

\* bool(x) for a JSON value
JsonTruthy(x) ==
    CASE x.t = "null" -> FALSE
      [] x.t = "list" -> Len(x.v) > 0
      [] x.t = "str" -> Len(x.v) > 0
      [] x.t = "num" -> x.v[1] # 0
      [] x.t = "dict" -> DOMAIN x.v # {}
      [] OTHER -> TRUE

----------------------------------------------------------------------------
(* DataFrames: a sequence of column names and a sequence of rows, each row *)
(* a sequence of cells aligned with the columns.                           *)

Frame(cols, rows) == [columns |-> cols, rows |-> rows]

\* pd.DataFrame()
EmptyFrame == Frame(<<>>, <<>>)

\* DataFrame.empty: some axis has length 0
IsEmpty(df) == Len(df.columns) = 0 \/ Len(df.rows) = 0

Range(s) == { s[i] : i \in 1..Len(s) }

\* index of name c in the sequence cols (c occurs in cols)
IndexOf(cols, c) == CHOOSE i \in 1..Len(cols) : cols[i] = c

Keep ==
    << "period", "reporterDesc", "partnerDesc", "cmdCode", "cmdDesc",
       "flowCode", "flowDesc", "primaryValue", "netWgt", "qty", "qtyUnit",
       "reporterCode", "reporterISO", "partnerCode", "partnerISO" >>

Rename(c) ==
    CASE c = "period" -> "year"
      [] c = "reporterDesc" -> "reporter"
      [] c = "partnerDesc" -> "partner"
      [] c = "cmdDesc" -> "hs_desc_en"
      [] c = "primaryValue" -> "trade_value_usd"
      [] c = "netWgt" -> "net_weight_kg"
      [] OTHER -> c

NumericColumns == {"year", "trade_value_usd", "net_weight_kg", "qty"}

\* The number a string spells ([-]digits[.digits]), or NaN: what
\* pd.to_numeric(errors="coerce") makes of one string.  Strings of other
\* numeric shapes (exponents, blanks around the number) are not among the
\* inputs.
ParseNumber(s) ==
    LET neg == Len(s) > 0 /\ s[1] = "-"
        body == IF neg THEN Tail(s) ELSE s
        sign == IF neg THEN -1 ELSE 1
        dots == { i \in 1..Len(body) : body[i] = "." }
    IN  IF dots = {}
        THEN IF IsDigit(body) THEN Num(sign * ParseInt(body), 0) ELSE NaN
        ELSE IF Cardinality(dots) = 1
        THEN LET d == CHOOSE i \in dots : TRUE
                 ip == SubSeq(body, 1, d - 1)
                 fp == SubSeq(body, d + 1, Len(body))
             IN  IF /\ (IsDigit(ip) \/ Len(ip) = 0)
                    /\ (IsDigit(fp) \/ Len(fp) = 0)
                    /\ Len(ip) + Len(fp) > 0
                 THEN Num(sign * ParseInt(ip \o fp), Len(fp))
                 ELSE NaN
        ELSE NaN

\* mutant: what does not parse becomes zero
ToNumericZero(cell) ==
    CASE cell.t = "num" -> cell
      [] cell.t = "str" ->
            IF ParseNumber(cell.v) = NaN THEN Num(0, 0) ELSE ParseNumber(cell.v)
      [] OTHER -> Num(0, 0)

\* pd.to_numeric(errors="coerce") on one cell
ToNumeric(cell) ==
    CASE cell.t = "num" -> cell
      [] cell.t = "str" -> ParseNumber(cell.v)
      [] OTHER -> NaN

\* What normalize returns or raises.
NormReturn(df) == [kind |-> "return", exc |-> "", df |-> df]
NormRaise(e) == [kind |-> "raise", exc |-> e, df |-> EmptyFrame]
NormPending == [kind |-> "pending", exc |-> "", df |-> EmptyFrame]

\* pd.DataFrame(rows), then df[keep].rename(columns=rename), then the
\* numeric conversion, for rows a non-empty list of dicts
NormalizeRows(rows) ==
    LET present == UNION { DOMAIN rows[i].v : i \in 1..Len(rows) }
        keep == SelectSeq(Keep, LAMBDA c : c \in present)
        cell(i, c) == IF c \in DOMAIN rows[i].v THEN rows[i].v[c] ELSE NaN
        conv(c, x) == IF Rename(c) \in NumericColumns THEN ToNumeric(x) ELSE x
    IN  Frame([k \in 1..Len(keep) |-> Rename(keep[k])],
              [i \in 1..Len(rows) |->
                  [k \in 1..Len(keep) |-> conv(keep[k], cell(i, keep[k]))]])

\* mutant: payload["data"] instead of payload.get("data") or []
normalizeNeedsData(payload) ==
    IF payload.t # "dict"
    THEN NormRaise("TypeError")
    ELSE IF "data" \notin DOMAIN payload.v
    THEN NormRaise("KeyError")
    ELSE IF payload.v["data"].t # "list"
    THEN NormRaise("ValueError")
    ELSE IF Len(payload.v["data"].v) = 0
    THEN NormReturn(EmptyFrame)
    ELSE NormReturn(NormalizeRows(payload.v["data"].v))

normalize(payload) ==
    IF payload.t # "dict"
    THEN NormRaise("AttributeError")
    ELSE LET data == DictGet(payload, "data")
             rows == IF JsonTruthy(data) THEN data ELSE List(<<>>)
         IN  IF ~JsonTruthy(rows)
             THEN NormReturn(EmptyFrame)
             ELSE IF rows.t # "list"
             THEN NormRaise("ValueError")
             ELSE NormReturn(NormalizeRows(rows.v))

----------------------------------------------------------------------------
(* What the service answers.                                               *)

RowA ==
    Dict("period" :> Num(2012, 0) @@ "primaryValue" :> Str(<<"1", "0", ".", "5">>)
         @@ "netWgt" :> Str(<<"a", "b", "c">>) @@ "refYear" :> Num(2012, 0))
RowB ==
    Dict("period" :> Str(<<"2", "0", "1", "2">>) @@ "cmdCode" :> Str(<<"8", "5">>)
         @@ "qty" :> Null)
\* a row none of whose fields is in the allow-list
RowX == Dict("refYear" :> Num(2012, 0) @@ "typeCode" :> Str(<<"C">>))

WithData(d) == Dict("data" :> d)
NoDataKey == Dict("count" :> Num(0, 0))

\* 2xx bodies whose rows end up in the accumulator
RowPayloads ==
    { WithData(List(<<RowA, RowB>>)),
      WithData(List(<<RowB, RowB>>)) }

\* 2xx bodies that add nothing: no data, rows without any kept field,
\* JSON that is not an object, a body that is not JSON
OtherPayloads ==
    { NoDataKey,
      WithData(Null),
      WithData(List(<<>>)),
      WithData(List(<<RowX>>)),
      List(<<>>),
      NotJson }

ErrorStatuses == {404, 500}

Response(status, retry_after, body) ==
    [status_code |-> status, retry_after |-> retry_after, body |-> body]
NoResp == Response(0, None, Null)

\* A response to download_country_csv: its status and its text, a
\* sequence of lines, each a sequence of words.
Reply(status, text) == [status_code |-> status, text |-> text]
NoReply == Reply(0, <<>>)

\* What call_api returned or raised.
Returned(js) == [kind |-> "return", exc |-> "", value |-> js]
Raised(e) == [kind |-> "raise", exc |-> e, value |-> Null]
NoResult == [kind |-> "none", exc |-> "", value |-> Null]

----------------------------------------------------------------------------
(* Where control is.  Each action below is its guard and assignments that  *)
(* can always be made, so it is enabled exactly when its guard holds.      *)

\* line 57: at the head of the retry loop
InLoop == cpc = "loop"
\* line 110: the for loop has a next year
AtNextYear == pc = "for" /\ y < StopYear
\* line 122: the for loop is exhausted
AtEnd == pc = "for" /\ y = StopYear
\* line 114: call_api returned to main
HasReturned == pc = "call" /\ cpc = "returned"
\* line 117: call_api raised into main's try
HasRaised == pc = "call" /\ cpc = "raised"
\* line 120: after the try statement
AtPause == pc = "pause"

----------------------------------------------------------------------------
(* call_api                                                                *)

\* mutant: the Retry-After header is ignored
Wait429NoHeader(wait, n) == Min(ThrottleCeiling, 1 + 2 ^ (n - 1))

\* line 63: the wait after a 429
Wait429(wait, n) ==
    IF Truthy(wait) /\ IsDigit(wait)
    THEN ParseInt(wait)
    ELSE Min(ThrottleCeiling, 1 + 2 ^ (n - 1))

\* mutant: one retry too many
RetryErrorLoose(n) == n <= MaxAttempts

\* mutant: one retry too few
RetryErrorTight(n) == n < MaxAttempts - 1

\* line 69: whether another error-class response is retried
RetryError(n) == n < MaxAttempts

\* mutant: the error wait one doubling ahead
WaitErrorAhead(n) == Min(ErrorCeiling, 1 + 2 ^ n)

\* line 70: the wait after another error-class response
WaitError(n) == Min(ErrorCeiling, 1 + 2 ^ (n - 1))

\* mutant: an empty credential passes for a credential
MissingKeyNoneOnly(ug, key) == ug /\ key = None

\* lines 44-48: the credential is required and missing
MissingKey(ug, key) == ug /\ ~Truthy(key)

\* lines 41-56: from the call to the head of the retry loop
Entry(p, ug) ==
    /\ period' = p
    /\ use_get' = ug
    /\ attempts' = 0
    /\ resp' = NoResp
    /\ nreq' = 0
    /\ n429' = 0
    /\ nerr' = 0
    /\ slept' = <<>>
    /\ IF MissingKey(ug, api_key)
       THEN cpc' = "raised" /\ result' = Raised("RuntimeError")
       ELSE cpc' = "loop" /\ result' = NoResult
    /\ UNCHANGED <<api_key, quota, batches>>

\* mutant: only the first 429 of an invocation is retried
Get429GivesUp ==
    /\ InLoop
    /\ n429 < quota
    /\ \E h \in RetryAfterValues :
          /\ resp' = Response(429, h, Null)
          /\ IF n429 = 0
             THEN /\ slept' = Append(slept, Wait429(h, attempts + 1))
                  /\ UNCHANGED <<cpc, result>>
             ELSE /\ cpc' = "raised"
                  /\ result' = Raised("HTTPError")
                  /\ UNCHANGED slept
    /\ attempts' = attempts + 1
    /\ nreq' = nreq + 1
    /\ n429' = n429 + 1
    /\ idle' = 0
    /\ UNCHANGED <<nerr, period, use_get, api_key, quota, batches>>
    /\ UNCHANGED <<pc, y, frames, file, writes, reported, pauses, started>>
    /\ UNCHANGED <<normVars, dlVars>>

\* lines 58-66: one iteration that receives a 429
Get429 ==
    /\ InLoop
    /\ n429 < quota
    /\ \E h \in RetryAfterValues :
          /\ resp' = Response(429, h, Null)
          /\ slept' = Append(slept, Wait429(h, attempts + 1))
    /\ attempts' = attempts + 1
    /\ nreq' = nreq + 1
    /\ n429' = n429 + 1
    /\ idle' = 0
    /\ UNCHANGED <<cpc, result, nerr, period, use_get, api_key, quota, batches>>
    /\ UNCHANGED <<pc, y, frames, file, writes, reported, pauses, started>>
    /\ UNCHANGED <<normVars, dlVars>>

\* lines 58-59, 67-74: one iteration that receives another status >= 400
GetError ==
    /\ InLoop
    /\ \E st \in ErrorStatuses : resp' = Response(st, None, Null)
    /\ attempts' = attempts + 1
    /\ nreq' = nreq + 1
    /\ nerr' = nerr + 1
    /\ IF RetryError(attempts + 1)
       THEN /\ slept' = Append(slept, WaitError(attempts + 1))
            /\ UNCHANGED <<cpc, result>>
       ELSE /\ cpc' = "raised"
            /\ result' = Raised("HTTPError")
            /\ UNCHANGED slept
    /\ idle' = 0
    /\ UNCHANGED <<n429, period, use_get, api_key, quota, batches>>
    /\ UNCHANGED <<pc, y, frames, file, writes, reported, pauses, started>>
    /\ UNCHANGED <<normVars, dlVars>>

\* lines 58-59, 76: one iteration that receives a 2xx
GetOk ==
    /\ InLoop
    /\ \E body \in RowPayloads \cup OtherPayloads :
          /\ body \in RowPayloads => batches < MaxBatches
          /\ batches' = IF body \in RowPayloads THEN batches + 1 ELSE batches
          /\ resp' = Response(200, None, body)
          /\ IF body = NotJson
             THEN cpc' = "raised" /\ result' = Raised("JSONDecodeError")
             ELSE cpc' = "returned" /\ result' = Returned(body)
    /\ attempts' = attempts + 1
    /\ nreq' = nreq + 1
    /\ idle' = 0
    /\ UNCHANGED <<n429, nerr, slept, period, use_get, api_key, quota>>
    /\ UNCHANGED <<pc, y, frames, file, writes, reported, pauses, started>>
    /\ UNCHANGED <<normVars, dlVars>>

\* lines 58-59: session.get raises (no connection, timeout)
GetFails ==
    /\ InLoop
    /\ attempts' = attempts + 1
    /\ nreq' = nreq + 1
    /\ cpc' = "raised"
    /\ result' = Raised("ConnectionError")
    /\ idle' = 0
    /\ UNCHANGED <<resp, n429, nerr, slept, period, use_get, api_key,
                   quota, batches>>
    /\ UNCHANGED <<pc, y, frames, file, writes, reported, pauses, started>>
    /\ UNCHANGED <<normVars, dlVars>>

\* call_api invoked on its own, with either endpoint
CallEntry ==
    /\ cpc = "entry"
    /\ Entry(period, use_get)
    /\ UNCHANGED mainVars
    /\ UNCHANGED <<normVars, dlVars>>

----------------------------------------------------------------------------
(* main                                                                    *)

Order ==
    << "year", "reporter", "partner", "flowDesc",
       "cmdCode", "hs_desc_en", "trade_value_usd",
       "net_weight_kg", "qty", "qtyUnit",
       "reporterCode", "reporterISO", "partnerCode", "partnerISO", "flowCode" >>

NoFile == Frame(<<"(no file)">>, <<>>)

\* mutant: the new frame is put in front
AccumulateInFront(fs, df) == IF ~IsEmpty(df) THEN <<df>> \o fs ELSE fs

\* lines 115-116: a non-empty frame joins the list, at its end
Accumulate(fs, df) == IF ~IsEmpty(df) THEN Append(fs, df) ELSE fs

RECURSIVE ConcatColumns(_)
\* the columns of pd.concat(fs): the union, in order of first appearance
ConcatColumns(fs) ==
    IF Len(fs) = 0 THEN <<>>
    ELSE LET before == ConcatColumns(SubSeq(fs, 1, Len(fs) - 1))
         IN  before \o SelectSeq(fs[Len(fs)].columns,
                                 LAMBDA c : c \notin Range(before))

\* one frame's rows laid out under the columns cols, NaN where it has none
Align(df, cols) ==
    [i \in 1..Len(df.rows) |->
        [k \in 1..Len(cols) |->
            IF cols[k] \in Range(df.columns)
            THEN df.rows[i][IndexOf(df.columns, cols[k])]
            ELSE NaN]]

RECURSIVE ConcatRows(_, _)
ConcatRows(fs, cols) ==
    IF Len(fs) = 0 THEN <<>>
    ELSE ConcatRows(SubSeq(fs, 1, Len(fs) - 1), cols) \o Align(fs[Len(fs)], cols)

\* line 126: pd.concat(frames, ignore_index=True)
Concat(fs) ==
    LET cols == ConcatColumns(fs) IN Frame(cols, ConcatRows(fs, cols))

\* line 133: the preferred columns first, the others after them
Reorder(out) ==
    LET cols == SelectSeq(Order, LAMBDA c : c \in Range(out.columns))
                \o SelectSeq(out.columns, LAMBDA c : c \notin Range(Order))
    IN  Frame(cols, Align(out, cols))

\* lines 110-113: the next year, up to the head of call_api's loop
ForYear ==
    /\ AtNextYear
    /\ pc' = "call"
    /\ started' = Append(started, y)
    /\ Entry(y, FALSE)
    /\ UNCHANGED <<y, frames, file, writes, reported, pauses, idle>>
    /\ UNCHANGED <<normVars, dlVars>>

\* lines 114-118: call_api returned; normalize, and keep a non-empty frame
TryRest ==
    /\ HasReturned
    /\ LET n == normalize(result.value)
       IN  frames' = IF n.kind = "return" THEN Accumulate(frames, n.df) ELSE frames
    /\ pc' = "pause"
    /\ cpc' = "idle"
    /\ UNCHANGED <<y, file, writes, reported, pauses, idle, started>>
    /\ UNCHANGED <<period, use_get, api_key, attempts, resp, result,
                   nreq, n429, nerr, slept, quota, batches>>
    /\ UNCHANGED <<normVars, dlVars>>

\* mutant: the exception ends the run
ExceptAborts ==
    /\ HasRaised
    /\ pc' = "done"
    /\ cpc' = "idle"
    /\ UNCHANGED <<y, frames, file, writes, reported, pauses, idle, started>>
    /\ UNCHANGED <<period, use_get, api_key, attempts, resp, result,
                   nreq, n429, nerr, slept, quota, batches>>
    /\ UNCHANGED <<normVars, dlVars>>

\* lines 117-118: call_api raised; the exception is printed
Except ==
    /\ HasRaised
    /\ pc' = "pause"
    /\ cpc' = "idle"
    /\ UNCHANGED <<y, frames, file, writes, reported, pauses, idle, started>>
    /\ UNCHANGED <<period, use_get, api_key, attempts, resp, result,
                   nreq, n429, nerr, slept, quota, batches>>
    /\ UNCHANGED <<normVars, dlVars>>

\* mutant: the pause is skipped after a partition that added nothing
PauseOnlyAfterData ==
    /\ AtPause
    /\ pauses' = IF Len(frames) > 0 THEN pauses + 1 ELSE pauses
    /\ idle' = IF Len(frames) > 0 THEN idle + Courtesy ELSE idle
    /\ y' = y + 1
    /\ pc' = "for"
    /\ UNCHANGED <<frames, file, writes, reported, started>>
    /\ UNCHANGED <<callVars, quota>>
    /\ UNCHANGED <<normVars, dlVars>>

\* line 120, and the step of the for loop
Pause ==
    /\ AtPause
    /\ pauses' = pauses + 1
    /\ idle' = idle + Courtesy
    /\ y' = y + 1
    /\ pc' = "for"
    /\ UNCHANGED <<frames, file, writes, reported, started>>
    /\ UNCHANGED <<callVars, quota>>
    /\ UNCHANGED <<normVars, dlVars>>

\* mutant: the file is written whether or not there are frames
FinishAlwaysWrites ==
    /\ AtEnd
    /\ pc' = "done"
    /\ file' = Reorder(Concat(frames))
    /\ writes' = writes + 1
    /\ UNCHANGED <<y, frames, reported, pauses, idle, started>>
    /\ UNCHANGED <<callVars, quota>>
    /\ UNCHANGED <<normVars, dlVars>>

\* lines 122-135: after the last year
Finish ==
    /\ AtEnd
    /\ pc' = "done"
    /\ IF Len(frames) = 0
       THEN reported' = TRUE /\ UNCHANGED <<file, writes>>
       ELSE /\ file' = Reorder(Concat(frames))
            /\ writes' = writes + 1
            /\ UNCHANGED reported
    /\ UNCHANGED <<y, frames, pauses, idle, started>>
    /\ UNCHANGED <<callVars, quota>>
    /\ UNCHANGED <<normVars, dlVars>>

----------------------------------------------------------------------------
(* normalize on its own                                                    *)

TestFields == {"period", "primaryValue", "qty", "refYear"}
TestCells ==
    { Num(2012, 0), Str(<<"1", "0", ".", "5">>), Str(<<"a", "b", "c">>), Null }

\* every row over some of the test fields
TestRows ==
    UNION { { Dict(f) : f \in [D -> TestCells] } : D \in SUBSET TestFields }

NormInputs ==
    { WithData(List(<<r>>)) : r \in TestRows }
    \cup { WithData(List(<<r1, r2>>)) : r1, r2 \in {RowA, RowB, RowX} }
    \cup (OtherPayloads \ {NotJson})

NormCall ==
    /\ nout = NormPending
    /\ nout' = normalize(nin)
    /\ UNCHANGED <<nin, mainVars, callVars, quota, dlVars>>

----------------------------------------------------------------------------
(* download_comtrade_by_country.py                                         *)

\* line 109: args.max_countries, absent (None) or the integer given
NoMax == [given |-> FALSE, n |-> 0]
Max(n) == [given |-> TRUE, n |-> n]
MaxValues == { NoMax } \cup { Max(n) : n \in -1 .. MaxReporters }

\* The reporters of the service that pass the filter of line 48, already
\* in the order of line 51 (by name).
ReporterPool ==
    << <<4, "Afghanistan">>, <<8, "Albania">>, <<56, "Belgium">>,
       <<124, "Canada">>, <<208, "Denmark">>, <<233, "Estonia">> >>

\* lines 34-52: what get_reporters returns when the service lists n
\* reporters
get_reporters(n) == SubSeq(ReporterPool, 1, n)

\* Python's s[:n]
Slice(s, n) ==
    IF n >= 0
    THEN SubSeq(s, 1, Min(n, Len(s)))
    ELSE SubSeq(s, 1, IF Len(s) + n > 0 THEN Len(s) + n ELSE 0)

\* lines 120-121: the cap; an int is truthy when it is not 0
Cut(reps, m) ==
    IF m.given /\ m.n # 0 THEN Slice(reps, m.n) ELSE reps

\* Texts the service answers with: lines of words; " " is white space.
CsvText == << <<"Classification", "Year">>, <<"H4", "2019">> >>
Texts ==
    { <<>>,
      << <<" ">> >>,
      CsvText,
      << <<>>, <<"Classification", "Year">> >>,
      << <<"No data">> >>,
      << <<"Error Message">> >>,
      << <<"Too Many Requests">> >> }

\* Responses to the request of line 72; a 204 has no content.
Replies ==
    { Reply(204, <<>>) } \cup
    { Reply(st, t) : st \in {200, 429, 500}, t \in Texts }

\* line 74: not r.text.strip()
IsBlank(text) ==
    \A i \in DOMAIN text : \A j \in DOMAIN text[i] : text[i][j] = " "

\* lines 80, 82: the substring tests, on words
InLine(w, line) == \E j \in DOMAIN line : line[j] = w
InText(w, text) == \E i \in DOMAIN text : InLine(w, text[i])

\* lines 73-88: whether download_country_csv writes the file, given the
\* response r to its one request
download_country_csv(r) ==
    IF r.status_code = 204 \/ IsBlank(r.text)
    THEN FALSE
    ELSE IF /\ ~InLine("Classification", r.text[1])
            /\ InText("No data", r.text) \/ InText("Error Message", r.text)
    THEN FALSE
    ELSE TRUE

AtStart == dpc = "start"
InFor == dpc = "loop" /\ idx < Len(reporters)
AfterFor == dpc = "loop" /\ idx = Len(reporters)

\* lines 115, 36-38: get_reporters raises (transport failure, error status
\* or a body that is not JSON); main does not catch it
GetReportersFails ==
    /\ AtStart
    /\ dpc' = "crashed"
    /\ UNCHANGED <<max_countries, found, reporters, idx, ok, ko, dresp,
                   requested, saved>>
    /\ UNCHANGED <<mainVars, callVars, quota, normVars>>

\* lines 115-118: no reporter is listed
NoReporters ==
    /\ AtStart
    /\ found' = 0
    /\ reporters' = get_reporters(0)
    /\ dpc' = "exit"
    /\ UNCHANGED <<max_countries, idx, ok, ko, dresp, requested, saved>>
    /\ UNCHANGED <<mainVars, callVars, quota, normVars>>

\* lines 115-124: the reporters are listed and cut to the cap
Begin ==
    /\ AtStart
    /\ \E n \in 1 .. MaxReporters :
          /\ found' = n
          /\ reporters' = Cut(get_reporters(n), max_countries)
    /\ ok' = 0
    /\ ko' = 0
    /\ idx' = 0
    /\ dpc' = "loop"
    /\ UNCHANGED <<max_countries, dresp, requested, saved>>
    /\ UNCHANGED <<mainVars, callVars, quota, normVars>>

\* lines 125-133, 140, 71-88: one iteration in which the request is answered
Download ==
    /\ InFor
    /\ \E r \in Replies :
          /\ dresp' = r
          /\ IF download_country_csv(r)
             THEN /\ saved' = saved \cup { <<reporters[idx + 1][1], r.text>> }
                  /\ ok' = ok + 1
                  /\ UNCHANGED ko
             ELSE /\ ko' = ko + 1
                  /\ UNCHANGED <<ok, saved>>
    /\ requested' = Append(requested, reporters[idx + 1][1])
    /\ idx' = idx + 1
    /\ UNCHANGED <<dpc, max_countries, found, reporters>>
    /\ UNCHANGED <<mainVars, callVars, quota, normVars>>

\* lines 125-127, 137-140, 72: one iteration in which requests.get raises
DownloadFails ==
    /\ InFor
    /\ dresp' = NoReply
    /\ ko' = ko + 1
    /\ requested' = Append(requested, reporters[idx + 1][1])
    /\ idx' = idx + 1
    /\ UNCHANGED <<dpc, max_countries, found, reporters, ok, saved>>
    /\ UNCHANGED <<mainVars, callVars, quota, normVars>>

\* line 142: the loop is over
Done ==
    /\ AfterFor
    /\ dpc' = "done"
    /\ UNCHANGED <<max_countries, found, reporters, idx, ok, ko, dresp,
                   requested, saved>>
    /\ UNCHANGED <<mainVars, callVars, quota, normVars>>

----------------------------------------------------------------------------
(* Specifications                                                          *)

MainAtRest ==
    /\ frames = <<>>
    /\ file = NoFile
    /\ writes = 0
    /\ reported = FALSE
    /\ pauses = 0
    /\ idle = 0
    /\ started = <<>>

CallAtRest ==
    /\ attempts = 0
    /\ resp = NoResp
    /\ result = NoResult
    /\ nreq = 0
    /\ n429 = 0
    /\ nerr = 0
    /\ slept = <<>>
    /\ batches = 0

NormAtRest ==
    /\ nin = Null
    /\ nout = NormPending

DlAtRest ==
    /\ dpc = "idle"
    /\ max_countries = NoMax
    /\ found = 0
    /\ reporters = <<>>
    /\ idx = 0
    /\ ok = 0
    /\ ko = 0
    /\ dresp = NoReply
    /\ requested = <<>>
    /\ saved = {}

\* a run of main; main passes use_get=False (line 113), so the credential
\* is never read
Init ==
    /\ pc = "for"
    /\ y = FirstYear
    /\ MainAtRest
    /\ cpc = "idle"
    /\ period = 0
    /\ use_get = FALSE
    /\ api_key = None
    /\ quota = MaxRun429
    /\ CallAtRest
    /\ NormAtRest
    /\ DlAtRest

Next ==
    \/ ForYear
    \/ Get429
    \/ GetError
    \/ GetOk
    \/ GetFails
    \/ TryRest
    \/ Except
    \/ Pause
    \/ Finish

Spec == Init /\ [][Next]_vars

\* one invocation of call_api
InitCall ==
    /\ pc = "idle"
    /\ y = FirstYear
    /\ MainAtRest
    /\ cpc = "entry"
    /\ period = FirstYear
    /\ use_get \in BOOLEAN
    /\ api_key \in ApiKeyValues
    /\ quota = MaxCall429
    /\ CallAtRest
    /\ NormAtRest
    /\ DlAtRest

NextCall ==
    \/ CallEntry
    \/ Get429
    \/ GetError
    \/ GetOk
    \/ GetFails

SpecCall == InitCall /\ [][NextCall]_vars

\* one invocation of normalize
InitNorm ==
    /\ pc = "idle"
    /\ y = FirstYear
    /\ MainAtRest
    /\ cpc = "idle"
    /\ period = 0
    /\ use_get = FALSE
    /\ api_key = None
    /\ quota = 0
    /\ CallAtRest
    /\ nin \in NormInputs
    /\ nout = NormPending
    /\ DlAtRest

NextNorm == NormCall

SpecNorm == InitNorm /\ [][NextNorm]_vars

\* one run of download_comtrade_by_country.py
InitDl ==
    /\ pc = "idle"
    /\ y = FirstYear
    /\ MainAtRest
    /\ cpc = "idle"
    /\ period = 0
    /\ use_get = FALSE
    /\ api_key = None
    /\ quota = 0
    /\ CallAtRest
    /\ NormAtRest
    /\ dpc = "start"
    /\ max_countries \in MaxValues
    /\ found = 0
    /\ reporters = <<>>
    /\ idx = 0
    /\ ok = 0
    /\ ko = 0
    /\ dresp = NoReply
    /\ requested = <<>>
    /\ saved = {}

NextDl ==
    \/ GetReportersFails
    \/ NoReporters
    \/ Begin
    \/ Download
    \/ DownloadFails
    \/ Done

SpecDl == InitDl /\ [][NextDl]_vars

----------------------------------------------------------------------------
(* Claims about call_api, checked under SpecCall                           *)

HttpError == Raised("HTTPError")

\* every response of the invocation so far was a non-429 error status
OnlyErrors == nreq > 0 /\ nerr = nreq

\* C1: when every response is a non-429 error status, call_api issues
\* exactly 3 requests, sleeps 2s after the first and 3s after the second,
\* then raises the HTTP error; there is no fourth request.
C1_ThreeAttemptsThenRaise ==
    OnlyErrors =>
        /\ nreq <= 3
        /\ nreq = 1 => cpc = "loop" /\ slept = <<2>>
        /\ nreq = 2 => cpc = "loop" /\ slept = <<2, 3>>
        /\ nreq = 3 => cpc = "raised" /\ result = HttpError /\ slept = <<2, 3>>

C1_Witness ==
    OnlyErrors /\ nreq = 3 /\ cpc = "raised" /\ result = HttpError

\* the wait C2 states for the n-th request answered 429 with header h
C2_StatedWait(h, n) ==
    CASE h = <<"3">> -> 3
      [] h = <<"1", "0">> -> 10
      [] OTHER -> IF 1 + 2 ^ (n - 1) > 60 THEN 60 ELSE 1 + 2 ^ (n - 1)

C3_BudgetPerErrorClass ==
    result = HttpError => nerr = 3

\* C3 amended: the budget counts requests of any kind.  A non-429 error
\* response is waited out and retried when it answers the first or second
\* request of the invocation, and raised when it answers the third or a
\* later one, 429-answered requests included in the count.
C3_BudgetCountsAllRequests ==
    [][nerr' = nerr + 1 =>
          IF nreq' < 3
          THEN /\ cpc' = "loop"
               /\ slept' = Append(slept, 1 + 2 ^ (nreq' - 1))
          ELSE /\ cpc' = "raised"
               /\ result' = HttpError
               /\ slept' = slept]_vars

C3_Witness ==
    result = HttpError /\ n429 = 2 /\ nerr = 1 /\ nreq = 3

\* C9: with use_get and the credential absent or empty, call_api fails at
\* once with a configuration error: no request, no wait, no retry.
C9_MissingKeyFailsAtOnce ==
    (use_get /\ api_key \in {None, <<>>} /\ cpc # "entry") =>
        /\ cpc = "raised"
        /\ result = Raised("RuntimeError")
        /\ nreq = 0
        /\ attempts = 0
        /\ slept = <<>>
        /\ resp = NoResp

C9_Witness ==
    use_get /\ api_key = <<>> /\ cpc = "raised" /\ result = Raised("RuntimeError")

----------------------------------------------------------------------------
(* Claims about main, checked under Spec                                   *)

NumYears == StopYear - FirstYear

\* the years FirstYear, FirstYear + 1, ... : n of them
Ascending(n) == [i \in 1..n |-> FirstYear + i - 1]

\* C4: every year 2010..2024 is attempted exactly once, one at a time, in
\* ascending order, whatever happened to the earlier ones: an exception in
\* year y is caught and year y+1 is still attempted.
C4_EveryYearAttemptedOnce ==
    /\ started = Ascending(Len(started))
    /\ pc = "for" => Len(started) = y - FirstYear
    /\ pc \in {"call", "pause"} => y < StopYear /\ Len(started) = y - FirstYear + 1
    /\ pc = "for" => AtNextYear \/ AtEnd
    /\ pc = "done" => Len(started) = NumYears
    /\ cpc \in {"loop", "returned", "raised"} => pc = "call" /\ period = y

\* the second year's HTTP error was escalated and caught
C4_Witness ==
    /\ pc = "pause"
    /\ started = <<FirstYear, FirstYear + 1>>
    /\ result = HttpError
    /\ nreq = 3

\* C5: the file is written iff some partition yielded a non-empty batch;
\* at most once, and only after the last partition; with no such partition
\* the run reports that no data was obtained and writes nothing; a written
\* file holds at least one data row.
C5_FileIffData ==
    /\ writes <= 1
    /\ writes = 1 <=> file # NoFile
    /\ pc # "done" => file = NoFile /\ ~reported
    /\ pc = "done" => Len(started) = NumYears
    /\ pc = "done" => (file # NoFile <=> batches > 0)
    /\ pc = "done" => (reported <=> batches = 0)
    /\ file # NoFile => Len(file.rows) >= 1

C5_Witness ==
    pc = "done" /\ writes = 1 /\ batches = 1 /\ Len(file.rows) = 2

RECURSIVE RowCount(_)
RowCount(fs) ==
    IF Len(fs) = 0 THEN 0
    ELSE RowCount(SubSeq(fs, 1, Len(fs) - 1)) + Len(fs[Len(fs)].rows)

\* the cell of frame df in row i under column c, NaN if it has no such column
CellOf(df, i, c) ==
    IF \E k \in 1..Len(df.columns) : df.columns[k] = c
    THEN df.rows[i][CHOOSE k \in 1..Len(df.columns) : df.columns[k] = c]
    ELSE NaN

\* f holds the rows of the frames fs: frame by frame, row by row, each cell
\* under its own column, nothing else but NaN
HoldsExactly(f, fs) ==
    /\ Len(f.rows) = RowCount(fs)
    /\ Range(f.columns) = UNION { Range(fs[j].columns) : j \in 1..Len(fs) }
    /\ \A j \in 1..Len(fs) : \A i \in 1..Len(fs[j].rows) :
          \A c \in Range(f.columns) :
             CellOf(f, RowCount(SubSeq(fs, 1, j - 1)) + i, c) = CellOf(fs[j], i, c)

\* the rows of the payload call_api just returned
ReturnedRows == result.value.v["data"].v

\* C6: the accumulator only grows, at its end, by the batch of the
\* partition that just succeeded with rows, in the row order of the
\* payload; the file holds exactly the accumulated rows in that order.
C6_AppendOnlyInOrder ==
    /\ [][\/ frames' = frames
          \/ /\ pc = "call" /\ cpc = "returned"
             /\ result.value \in RowPayloads
             /\ Len(frames') = Len(frames) + 1
             /\ SubSeq(frames', 1, Len(frames)) = frames
             /\ frames'[Len(frames')] = normalize(result.value).df
             /\ Len(frames'[Len(frames')].rows) = Len(ReturnedRows)]_vars
    /\ [](pc \in {"for", "pause", "done"} => Len(frames) = batches)
    /\ [](file # NoFile => HoldsExactly(file, frames))

C6_Witness ==
    /\ pc = "done"
    /\ batches = 2
    /\ Len(frames) = 2
    /\ frames[1] # frames[2]
    /\ Len(file.rows) = 4

\* C7: after every partition, successful or failed, exactly one courtesy
\* delay of 1.2s is observed, so that one always lies between the last
\* response of a partition and the first request of the next.
C7_OnePausePerPartition ==
    /\ pc \in {"for", "done"} => pauses = Len(started)
    /\ pc \in {"call", "pause"} => pauses = Len(started) - 1
    /\ pc = "call" /\ nreq = 0 /\ y > FirstYear => idle = Courtesy
    /\ pc = "for" /\ y > FirstYear => idle = Courtesy

C7_Witness ==
    /\ pc = "call" /\ cpc = "loop" /\ nreq = 0
    /\ y = FirstYear + 2
    /\ pauses = 2
    /\ idle = Courtesy
    /\ batches = 1

----------------------------------------------------------------------------
(* Termination, checked under Spec                                         *)

\* every response of the invocation so far was a 429
OnlyThrottled == nreq > 0 /\ n429 = nreq

RunEnded == pc = "done" /\ (file # NoFile \/ reported)

\* some action of main or of call_api is enabled
CanStep == AtNextYear \/ AtEnd \/ InLoop \/ HasReturned \/ HasRaised \/ AtPause

\* steps the current partition can still take, at most
StepsLeftInYear ==
    CASE pc = "for" -> quota + 6
      [] pc = "call" /\ cpc = "loop" -> 3 + (quota - n429) + (2 - nerr)
      [] pc = "call" /\ cpc # "loop" -> 2
      [] pc = "pause" -> 1
      [] OTHER -> 0

\* steps the run can still take, at most
StepsLeft == (StopYear - y) * (quota + 7) + StepsLeftInYear

----------------------------------------------------------------------------
(* Claims about normalize, checked under SpecNorm                          *)

AllowList ==
    { "year", "reporter", "partner", "cmdCode", "hs_desc_en", "flowCode",
      "flowDesc", "trade_value_usd", "net_weight_kg", "qty", "qtyUnit",
      "reporterCode", "reporterISO", "partnerCode", "partnerISO" }

\* the source field a numeric column is read from
SourceOf(c) ==
    CASE c = "year" -> "period"
      [] c = "trade_value_usd" -> "primaryValue"
      [] c = "net_weight_kg" -> "netWgt"
      [] c = "qty" -> "qty"

\* what a numeric column holds for a source cell: the number, or missing
StatedNumber(cell) ==
    CASE cell = Num(2012, 0) -> Num(2012, 0)
      [] cell = Str(<<"2", "0", "1", "2">>) -> Num(2012, 0)
      [] cell = Str(<<"1", "0", ".", "5">>) -> Num(105, 1)
      [] OTHER -> NaN

NormRows == nin.v["data"].v

HasRows ==
    /\ nin.t = "dict"
    /\ "data" \in DOMAIN nin.v
    /\ nin.v["data"].t = "list"
    /\ Len(NormRows) > 0

\* C10: for a payload with a non-empty data list, normalize returns one
\* record per source row, with fields only from the renamed allow-list, and
\* each of year, trade_value_usd, net_weight_kg, qty holds the parsed number
\* or the missing marker, never zero for what does not parse.
C10_NormalizeKeepsAllowList ==
    (HasRows /\ nout # NormPending) =>
        LET df == nout.df IN
        /\ nout.kind = "return"
        /\ Len(df.rows) = Len(NormRows)
        /\ Range(df.columns) \subseteq AllowList
        /\ \A i \in 1..Len(df.rows) : Len(df.rows[i]) = Len(df.columns)
        /\ \A k \in 1..Len(df.columns) : \A i \in 1..Len(df.rows) :
              df.columns[k] \in NumericColumns =>
                 df.rows[i][k] =
                    IF SourceOf(df.columns[k]) \in DOMAIN NormRows[i].v
                    THEN StatedNumber(NormRows[i].v[SourceOf(df.columns[k])])
                    ELSE NaN

C10_Witness ==
    /\ nin = WithData(List(<<RowA, RowB>>))
    /\ nout.kind = "return"
    /\ nout.df.columns =
          <<"year", "cmdCode", "trade_value_usd", "net_weight_kg", "qty">>
    /\ nout.df.rows[1] = <<Num(2012, 0), NaN, Num(105, 1), NaN, NaN>>
    /\ nout.df.rows[2][1] = Num(2012, 0)

----------------------------------------------------------------------------
(* Empty results, checked under Spec                                       *)

\* 2xx payloads whose data is absent, null or an empty list
EmptyDataPayloads == { NoDataKey, WithData(Null), WithData(List(<<>>)) }

\* C11: a 2xx payload whose data is an empty list, null or absent is no
\* error: normalize returns zero records without raising, the partition
\* appends nothing, and the run goes on to the pause and the next year.
C11_EmptyDataIsNoError ==
    /\ [][HasReturned /\ result.value \in EmptyDataPayloads =>
             /\ normalize(result.value).kind = "return"
             /\ Len(normalize(result.value).df.rows) = 0
             /\ frames' = frames
             /\ pc' = "pause"
             /\ y' = y]_vars
    /\ [][AtPause => pc' = "for" /\ y' = y + 1 /\ frames' = frames]_vars

C11_Witness ==
    /\ pc = "for"
    /\ y = FirstYear + 1
    /\ result = Returned(WithData(Null))
    /\ frames = <<>>
    /\ ~reported

----------------------------------------------------------------------------
(* The two backoff tiers, checked under SpecCall                           *)

\* Retry-After values for which line 63 falls back on the computed wait
C14_NoStatedWait == RetryAfterValues \ { <<"3">>, <<"1", "0">> }

\* C14 as stated: the wait before the retry of a non-429 error is strictly
\* shorter than the computed 429 wait at the same attempt count and at most
\* 15; the computed 429 wait never decreases and is at most 60.
C14_ErrorWaitStrictlyShorter ==
    /\ [][nerr' = nerr + 1 /\ cpc' = "loop" =>
             /\ Len(slept') = Len(slept) + 1
             /\ slept'[Len(slept')] < Wait429(None, attempts')
             /\ slept'[Len(slept')] <= 15]_vars
    /\ [][n429' = n429 + 1 /\ resp'.retry_after \in C14_NoStatedWait =>
             /\ slept'[Len(slept')] = Wait429(None, attempts')
             /\ slept'[Len(slept')] <= 60
             /\ attempts >= 1 =>
                   Wait429(None, attempts) <= Wait429(None, attempts')]_vars

\* C14, amended: the wait before the retry of a non-429 error (attempts 1
\* and 2) equals the computed 429 wait at the same attempt count, so it is
\* never longer, and it stays below 15; the computed 429 wait never
\* decreases and is at most 60.
C14_ErrorWaitNeverLonger ==
    /\ [][nerr' = nerr + 1 /\ cpc' = "loop" =>
             /\ attempts' \in {1, 2}
             /\ Len(slept') = Len(slept) + 1
             /\ slept'[Len(slept')] = Wait429(None, attempts')
             /\ slept'[Len(slept')] < 15]_vars
    /\ [][n429' = n429 + 1 /\ resp'.retry_after \in C14_NoStatedWait =>
             /\ slept'[Len(slept')] = Wait429(None, attempts')
             /\ slept'[Len(slept')] <= 60
             /\ attempts >= 1 =>
                   Wait429(None, attempts) <= Wait429(None, attempts')]_vars

C14_Witness ==
    /\ cpc = "loop"
    /\ nerr = 2
    /\ n429 = 5
    /\ resp.retry_after = None
    /\ slept = <<2, 3, 5, 9, 17, 33, 60>>

----------------------------------------------------------------------------
(* The per-reporter download, checked under SpecDl                         *)

\* how many times reporter rid occurs in the log of requests
Requests(log, rid) == Cardinality({ i \in DOMAIN log : log[i] = rid })

\* C12 as stated: in download_comtrade_by_country a reporter answered with
\* a 429 or another error-class response is requested again before it is
\* counted as failed, and an error-class response never leads to a file
\* written and counted as OK.
C12_ErrorIsRetriedNeverSaved ==
    /\ [][idx' = idx + 1 /\ dresp'.status_code >= 400 =>
             /\ ok' = ok
             /\ saved' = saved]_vars
    /\ [][idx' = idx + 1 /\ dresp'.status_code >= 400 /\ ko' = ko + 1 =>
             Requests(requested', reporters[idx'][1]) >= 2]_vars

C12_Witness ==
    /\ dpc = "done"
    /\ requested = <<4>>
    /\ dresp = Reply(429, << <<"Too Many Requests">> >>)
    /\ ok = 1
    /\ saved = { <<4, << <<"Too Many Requests">> >> >> }

\* C13 as stated: when --max N is given, at most N reporters are requested
\* in the run, for every integer N including 0; and at the end of the run
\* ok + ko is the number of reporters requested.
C13_MaxCapsTheRun ==
    /\ [](max_countries.given /\ max_countries.n >= 0 =>
             Len(requested) <= max_countries.n)
    /\ [](dpc = "done" => ok + ko = Len(requested))

C13_Witness ==
    /\ dpc = "done"
    /\ max_countries = Max(0)
    /\ found = 2
    /\ requested = <<4, 8>>

====
